---- MODULE Spec2Model ----
(***************************************************************************)
(* The holiday calendar engine of src/app/holidays.py: HolidayBase (a dict *)
(* from dates to holiday names, populated lazily per year), the Colombia   *)
(* rule table and HolidaySum (the composite produced by +).                *)
(*                                                                         *)
(* A date is its proleptic Gregorian ordinal (datetime.date.toordinal), a  *)
(* holiday label is a sequence of text tokens, and a dict is the sequence  *)
(* of its items in insertion order.                                        *)
(***************************************************************************)
EXTENDS Integers, Sequences, FiniteSets, TLC

VARIABLES cal, last

vars == <<cal, last>>

(***************************************************************************)
(* Bounds of the model.                                                    *)
(***************************************************************************)
\* first year of the calendars of Spec and SpecSum
BaseYear == 2022
\* number of consecutive years of Spec and SpecSum
NumYears == 2
\* first year of the rule table check (SpecRules)
RuleBaseYear == 2005
\* number of consecutive years of the rule table check
RuleNumYears == 20
\* the ghost counter of _populate invocations saturates here
MaxCalls == 2
\* user insertions and removals per calendar
MaxEdits == 2

Years == BaseYear .. (BaseYear + NumYears - 1)
RuleYears == RuleBaseYear .. (RuleBaseYear + RuleNumYears - 1)

(***************************************************************************)
(* Module constants, holidays.py lines 25-28.                              *)
(***************************************************************************)
MON == 0
TUE == 1
WED == 2
THU == 3
FRI == 4
SAT == 5
SUN == 6
WEEKEND == {SAT, SUN}

JAN == 1
FEB == 2
MAR == 3
APR == 4
MAY == 5
JUN == 6
JUL == 7
AUG == 8
SEP == 9
OCT == 10
NOV == 11
DEC == 12

(***************************************************************************)
(* datetime.date: construction, weekday(), year.                           *)
(***************************************************************************)
IsLeap(y) == (y % 4 = 0 /\ y % 100 # 0) \/ y % 400 = 0

DaysBeforeYear(y) ==
    LET p == y - 1 IN p * 365 + (p \div 4) - (p \div 100) + (p \div 400)

DaysBeforeMonth(y, m) ==
    LET cum == <<0, 31, 59, 90, 120, 151, 181, 212, 243, 273, 304, 334>>
    IN cum[m] + (IF m > FEB /\ IsLeap(y) THEN 1 ELSE 0)

\* date(year, month, day) as an ordinal
date(y, m, d) == DaysBeforeYear(y) + DaysBeforeMonth(y, m) + d

\* date.weekday(): Monday is 0
weekday(o) == (o + 6) % 7

\* date.year
year(o) ==
    LET g == ((o * 400) \div 146097) + 1
    IN IF date(g, JAN, 1) > o THEN g - 1
       ELSE IF date(g + 1, JAN, 1) <= o THEN g + 1
       ELSE g

(***************************************************************************)
(* dateutil: easter(year) (Western, the default method) and the            *)
(* relativedelta(weekday=...) adjustments the rule table uses.             *)
(***************************************************************************)
easter(y) ==
    LET g == y % 19
        c == y \div 100
        h == (c - (c \div 4) - ((8 * c + 13) \div 25) + 19 * g + 15) % 30
        i == h - (h \div 28) * (1 - (h \div 28) * (29 \div (h + 1)) * ((21 - g) \div 11))
        j == (y + (y \div 4) + i + 2 - c + (c \div 4)) % 7
        p == i - j
        d == 1 + ((p + 27 + ((p + 6) \div 40)) % 31)
        m == 3 + ((p + 26) \div 30)
    IN date(y, m, d)

\* d + relativedelta(weekday=wd): the first day on or after d that is a wd
rd_weekday(d, wd) == d + ((wd - weekday(d)) % 7)

\* d + relativedelta(weekday=wd(-1)): the last day on or before d that is a wd
rd_weekday_before(d, wd) == d - ((weekday(d) - wd) % 7)

(***************************************************************************)
(* str: find, "%s, %s" and split(", ") on token sequences.                 *)
(***************************************************************************)
\* the tokens of ", "
Separator == <<", ">>
\* the tokens of "(Observed)"
ObservedSuffix == <<"(", "Observed", ")">>
\* the tokens of "Observed"
ObservedMarker == <<"Observed">>

\* s.find(sub) >= 0
Contains(s, sub) ==
    \E i \in 0 .. (Len(s) - Len(sub)) :
        \A j \in 1 .. Len(sub) : s[i + j] = sub[j]

\* "%s, %s" % (a, b)
Joined(a, b) == a \o Separator \o b

RECURSIVE split(_)
\* s.split(", ")
split(s) ==
    IF \E i \in 1 .. Len(s) : s[i] = Separator[1]
    THEN LET i == CHOOSE i \in 1 .. Len(s) :
                      /\ s[i] = Separator[1]
                      /\ \A j \in 1 .. (i - 1) : s[j] # Separator[1]
         IN <<SubSeq(s, 1, i - 1)>> \o split(SubSeq(s, i + 1, Len(s)))
    ELSE <<s>>

(***************************************************************************)
(* dict: the items in insertion order, each <<key, value>>.                *)
(***************************************************************************)
dict_keys(items) == {items[i][1] : i \in 1 .. Len(items)}

dict_contains(items, key) == \E i \in 1 .. Len(items) : items[i][1] = key

\* dict.__getitem__ on a key that is present
dict_getitem(items, key) ==
    items[CHOOSE i \in 1 .. Len(items) : items[i][1] = key][2]

\* dict.__setitem__: a present key keeps its place, a new key goes last
dict_setitem(items, key, value) ==
    IF dict_contains(items, key)
    THEN [i \in 1 .. Len(items) |->
             IF items[i][1] = key THEN <<key, value>> ELSE items[i]]
    ELSE Append(items, <<key, value>>)

\* del d[key]
dict_delitem(items, key) ==
    SelectSeq(items, LAMBDA it : it[1] # key)

\* the dict as a function from its keys to their values (dict equality)
AsMap(items) == [k \in dict_keys(items) |-> dict_getitem(items, k)]

(***************************************************************************)
(* The calendars.  cal[id] is one HolidayBase object: its attributes, its  *)
(* dict items, and for a HolidaySum the ids of its constituents.  The      *)
(* field calls counts the invocations of _populate per year (saturating at *)
(* MaxCalls), edits counts the user insertions and removals, toggled tells *)
(* that observed was assigned after construction, pure that every entry    *)
(* was produced by the rules with observed = TRUE, and snap remembers the  *)
(* mapping a SetObserved(false) found in a pure calendar.                  *)
(***************************************************************************)
Ids == {"A", "B", "S", "T"}

NoCalendar ==
    [kind |-> "none", country |-> <<>>, years |-> {}, expand |-> FALSE,
     observed |-> FALSE, items |-> <<>>, holidays |-> <<>>,
     calls |-> <<>>, edits |-> 0, toggled |-> FALSE, pure |-> FALSE,
     snap |-> <<>>]

\* one more invocation of _populate(y)
Bump(calls, y) ==
    IF \E i \in 1 .. Len(calls) : calls[i][1] = y
    THEN [i \in 1 .. Len(calls) |->
             IF calls[i][1] = y /\ calls[i][2] < MaxCalls
             THEN <<y, calls[i][2] + 1>> ELSE calls[i]]
    ELSE Append(calls, <<y, 1>>)

Calls(c, id, y) ==
    IF \E i \in 1 .. Len(c[id].calls) : c[id].calls[i][1] = y
    THEN c[id].calls[CHOOSE i \in 1 .. Len(c[id].calls) : c[id].calls[i][1] = y][2]
    ELSE 0

(***************************************************************************)
(* Colombia._populate: the rule table, as the insertions it performs in    *)
(* the order of the code.                                                  *)
(***************************************************************************)
NewYear == <<"Ano Nuevo [New Year's Day]">>
LabourDay == <<"Dia del Trabajo [Labour Day]">>
IndependenceDay == <<"Dia de la Independencia [Independence Day]">>
BattleOfBoyaca == <<"Batalla de Boyaca [Battle of Boyaca]">>
ImmaculateConception == <<"La Inmaculada Concepcion [Immaculate Conception]">>
Christmas == <<"Navidad [Christmas]">>
Epiphany == <<"Dia de los Reyes Magos [Epiphany]">>
SaintJoseph == <<"Dia de San Jose [Saint Joseph's Day]">>
SaintPeterAndPaul == <<"San Pedro y San Pablo [Saint Peter and Saint Paul]">>
Assumption == <<"La Asuncion [Assumption of Mary]">>
DiscoveryOfAmerica == <<"Descubrimiento de America [Discovery of America]">>
AllSaints == <<"Dia de Todos los Santos [All Saint's Day]">>
IndependenceOfCartagena == <<"Independencia de Cartagena [Independence of Cartagena]">>
MaundyThursday == <<"Jueves Santo [Maundy Thursday]">>
GoodFriday == <<"Viernes Santo [Good Friday]">>
Ascension == <<"Ascension del senor [Ascension of Jesus]">>
CorpusChristi == <<"Corpus Christi [Corpus Christi]">>
SacredHeart == <<"Sagrado Corazon [Sacred Heart]">>

\* a rule that drops a date on a weekend whatever observed is
WeekendRule_always(observed, d, name) ==
    IF weekday(d) \in WEEKEND THEN <<>> ELSE << <<d, name>> >>

\* if self.observed and d.weekday() in WEEKEND: pass / else: self[d] = name
WeekendRule(observed, d, name) ==
    IF observed /\ weekday(d) \in WEEKEND THEN <<>> ELSE << <<d, name>> >>

\* self[d] = name
FixedRule(d, name) == << <<d, name>> >>

\* an Emiliani rule that moves a holiday only off a weekend
EmilianiRule_weekend(observed, d, name) ==
    IF weekday(d) \notin WEEKEND \/ ~observed
    THEN << <<d, name>> >>
    ELSE << <<rd_weekday(d, MON), name \o ObservedSuffix>> >>

\* if d.weekday() == MON or not self.observed: self[d] = name
\* else: self[d + rd(weekday=MO)] = name + "(Observed)"
EmilianiRule(observed, d, name) ==
    IF weekday(d) = MON \/ ~observed
    THEN << <<d, name>> >>
    ELSE << <<rd_weekday(d, MON), name \o ObservedSuffix>> >>

ColombiaRules(y, observed) ==
       WeekendRule(observed, date(y, JAN, 1), NewYear)
    \o FixedRule(date(y, MAY, 1), LabourDay)
    \o WeekendRule(observed, date(y, JUL, 20), IndependenceDay)
    \o FixedRule(date(y, AUG, 7), BattleOfBoyaca)
    \o WeekendRule(observed, date(y, DEC, 8), ImmaculateConception)
    \o FixedRule(date(y, DEC, 25), Christmas)
    \o EmilianiRule(observed, date(y, JAN, 6), Epiphany)
    \o EmilianiRule(observed, date(y, MAR, 19), SaintJoseph)
    \o EmilianiRule(observed, date(y, JUN, 29), SaintPeterAndPaul)
    \o EmilianiRule(observed, date(y, AUG, 15), Assumption)
    \o EmilianiRule(observed, date(y, OCT, 12), DiscoveryOfAmerica)
    \o EmilianiRule(observed, date(y, NOV, 1), AllSaints)
    \o EmilianiRule(observed, date(y, NOV, 11), IndependenceOfCartagena)
    \o FixedRule(rd_weekday_before(easter(y), THU), MaundyThursday)
    \o FixedRule(rd_weekday_before(easter(y), FRI), GoodFriday)
    \o EmilianiRule(observed, easter(y) + 39, Ascension)
    \o EmilianiRule(observed, easter(y) + 60, CorpusChristi)
    \o EmilianiRule(observed, easter(y) + 68, SacredHeart)

(***************************************************************************)
(* HolidayBase: __keytransform__, __setitem__, update, _populate.  Each    *)
(* takes the state c of all calendars and returns the state it leaves.     *)
(* Where one step works on the state another leaves, that state is bound   *)
(* by  CHOOSE r \in {e : x \in {s}} : TRUE  (e with x standing for the     *)
(* value of s), so that it is computed once.                               *)
(***************************************************************************)
RECURSIVE populate(_, _, _)

\* the test of __keytransform__: the key's year is to be expanded
Expands(c, id, key) == c[id].expand /\ year(key) \notin c[id].years

\* a __keytransform__ that records the year and populates nothing
keytransform_yearonly(c, id, key) ==
    IF Expands(c, id, key)
    THEN [c EXCEPT ![id].years = @ \cup {year(key)}]
    ELSE c

\* a __keytransform__ that expands an unseen year whatever self.expand is
keytransform_always(c, id, key) ==
    IF year(key) \notin c[id].years
    THEN populate([c EXCEPT ![id].years = @ \cup {year(key)}], id, year(key))
    ELSE c

\* __keytransform__ on a date key: the lazy expansion of the key's year
keytransform(c, id, key) ==
    IF Expands(c, id, key)
    THEN populate([c EXCEPT ![id].years = @ \cup {year(key)}], id, year(key))
    ELSE c

\* a merge that joins without looking for either text in the other
Merged_always(value, old) == Joined(value, old)

\* a merge that puts the new text after the text held
Merged_appended(value, old) ==
    IF ~Contains(old, value) /\ ~Contains(value, old)
    THEN Joined(old, value)
    ELSE old

\* the text __setitem__ stores for value on a date holding old
Merged(value, old) ==
    IF ~Contains(old, value) /\ ~Contains(value, old)
    THEN Joined(value, old)
    ELSE old

\* the text __setitem__ stores for value in the dict items
Stored(items, key, value) ==
    IF dict_contains(items, key)
    THEN Merged(value, dict_getitem(items, key))
    ELSE value

\* __setitem__: "key in self" expands the key's year first; the later
\* __keytransform__ calls of get and of the final store find it expanded
setitem(c, id, key, value) ==
    [keytransform(c, id, key) EXCEPT ![id].items =
        dict_setitem(@, key, Stored(@, key, value))]

RECURSIVE setitems(_, _, _, _)
\* self[key] = value for each of arg[lo..hi], in order, on a dict whose
\* calendar expands no year for them (the first half of the range, then
\* the rest on the dict the first half leaves)
setitems(items, arg, lo, hi) ==
    IF lo > hi THEN items
    ELSE IF lo = hi
    THEN dict_setitem(items, arg[lo][1], Stored(items, arg[lo][1], arg[lo][2]))
    ELSE CHOOSE r \in
        { setitems(d, arg, ((lo + hi) \div 2) + 1, hi) :
          d \in {setitems(items, arg, lo, (lo + hi) \div 2)} } : TRUE

\* the first of arg[lo..] whose key __keytransform__ expands, or Len(arg) + 1
FirstExpanding(c, id, arg, lo) ==
    IF \E i \in lo .. Len(arg) : Expands(c, id, arg[i][1])
    THEN CHOOSE i \in lo .. Len(arg) :
             /\ Expands(c, id, arg[i][1])
             /\ \A j \in lo .. (i - 1) : ~Expands(c, id, arg[j][1])
    ELSE Len(arg) + 1

RECURSIVE update(_, _, _, _)
\* update(arg) for the items arg[lo..]: self[key] = value for each, in
\* order: the items before the first that expands a year, that item, and
\* the rest from the state it leaves
update(c, id, arg, lo) ==
    IF FirstExpanding(c, id, arg, lo) > Len(arg)
    THEN [c EXCEPT ![id].items = setitems(@, arg, lo, Len(arg))]
    ELSE CHOOSE r \in
        { update(c1, id, arg, FirstExpanding(c, id, arg, lo) + 1) :
          c1 \in UNION {
              { setitem(c0, id, arg[k][1], arg[k][2]) :
                c0 \in {[c EXCEPT ![id].items = setitems(@, arg, lo, k - 1)]} } :
              k \in {FirstExpanding(c, id, arg, lo)} } } : TRUE

\* Colombia._populate(year)
Colombia_populate(c, id, y) ==
    CHOOSE r \in
        { update(c, id, rules, 1) :
          rules \in {ColombiaRules(y, c[id].observed)} } : TRUE

RECURSIVE HolidaySum_populate(_, _, _, _)
\* HolidaySum._populate(year) for the constituents holidays[i], .., holidays[1]:
\* h._populate(year), then self.update(h) over a copy of h's items
HolidaySum_populate(c, id, y, i) ==
    IF i = 0 THEN c
    ELSE CHOOSE r \in
        { HolidaySum_populate(c2, id, y, i - 1) :
          c2 \in { CHOOSE r2 \in
                     { update(c1, id, c1[c[id].holidays[i]].items, 1) :
                       c1 \in {populate(c, c[id].holidays[i], y)} } : TRUE }
        } : TRUE

\* self._populate(year), by the class of the object
populate(c, id, y) ==
    CASE c[id].kind = "Colombia" ->
             Colombia_populate([c EXCEPT ![id].calls = Bump(@, y)], id, y)
      [] c[id].kind = "HolidaySum" ->
             HolidaySum_populate([c EXCEPT ![id].calls = Bump(@, y)], id, y,
                                 Len(c[id].holidays))
      [] OTHER -> [c EXCEPT ![id].calls = Bump(@, y)]

RECURSIVE populate_all(_, _, _, _)
\* for year in years: self._populate(year), for the years order[i..]
populate_all(c, id, order, i) ==
    IF i > Len(order) THEN c
    ELSE CHOOSE r \in
        { populate_all(c1, id, order, i + 1) :
          c1 \in {populate(c, id, order[i])} } : TRUE

\* the orders in which a set of years may be listed
Orders(S) ==
    {o \in [1 .. Cardinality(S) -> S] : \A y \in S : \E i \in DOMAIN o : o[i] = y}

\* HolidayBase.__init__, after Colombia.__init__ has set country or
\* HolidaySum.__init__ country and holidays; order lists self.years
init(c, id, kind, country, holidays, order, expand, observed) ==
    populate_all(
        [c EXCEPT ![id] = [NoCalendar EXCEPT
            !.kind = kind, !.country = country, !.holidays = holidays,
            !.years = {order[i] : i \in 1 .. Len(order)},
            !.expand = expand, !.observed = observed]],
        id, order, 1)

\* a __setattr__("observed", False) that removes the entries holding
\* "(Observed)", parentheses included
setattr_observed_suffix(c, id, value, order) ==
    IF Len(c[id].items) > 0
    THEN IF value
         THEN populate_all(
                  [c EXCEPT ![id].observed = value, ![id].years = {},
                            ![id].items = <<>>],
                  id, order, 1)
         ELSE [c EXCEPT ![id].observed = value,
                        ![id].items = SelectSeq(@,
                            LAMBDA it : ~Contains(it[2], ObservedSuffix))]
    ELSE [c EXCEPT ![id].observed = value]

\* __setattr__("observed", value), order listing self.years
setattr_observed(c, id, value, order) ==
    IF Len(c[id].items) > 0
    THEN IF value
         THEN populate_all(
                  [c EXCEPT ![id].observed = value, ![id].years = {},
                            ![id].items = <<>>],
                  id, order, 1)
         ELSE [c EXCEPT ![id].observed = value,
                        ![id].items = SelectSeq(@,
                            LAMBDA it : ~Contains(it[2], ObservedMarker))]
    ELSE [c EXCEPT ![id].observed = value]

(***************************************************************************)
(* The queries.  Each gives <<state left, result, error>>; the error is    *)
(* "none" when the call returns.                                           *)
(***************************************************************************)
\* the value None of a date argument (a date is never falsy)
None == 0

\* __contains__
contains(c, id, key) ==
    CHOOSE r \in
        { <<c1, dict_contains(c1[id].items, key), "none">> :
          c1 \in {keytransform(c, id, key)} } : TRUE

\* get(key, default)
get(c, id, key, default) ==
    CHOOSE r \in
        { <<c1,
            IF dict_contains(c1[id].items, key)
            THEN dict_getitem(c1[id].items, key) ELSE default,
            "none">> :
          c1 \in {keytransform(c, id, key)} } : TRUE

\* get_list(key): [h for h in self.get(key, "").split(", ") if h]
get_list(c, id, key) ==
    CHOOSE r \in
        { <<g[1], SelectSeq(split(g[2]), LAMBDA h : h # <<>>), "none">> :
          g \in {get(c, id, key, <<>>)} } : TRUE

\* the step of a slice: None is 1; a timedelta counts its days
StepOf(step) == IF step = <<>> THEN 1 ELSE step[1]

\* a step left as given (the sign is not corrected)
Directed_unflipped(diff, step) == step

\* a correction that makes every step positive
Directed_absolute(diff, step) == IF step < 0 THEN 0 - step ELSE step

\* the step after the correction of its sign
Directed(diff, step) ==
    IF (diff < 0 /\ 0 <= step) \/ (diff >= 0 /\ 0 > step) THEN 0 - step ELSE step

\* len(range(0, diff, step)) for a step of the sign of diff
RangeLen(diff, step) ==
    IF step > 0
    THEN IF diff <= 0 THEN 0 ELSE ((diff - 1) \div step) + 1
    ELSE IF diff >= 0 THEN 0 ELSE (((0 - diff) - 1) \div (0 - step)) + 1

\* [start + delta for delta in range(0, diff, step) if start + delta in dict]
days_in_range(items, start, diff, step) ==
    SelectSeq([i \in 1 .. RangeLen(diff, step) |-> start + (i - 1) * step],
              LAMBDA day : dict_contains(items, day))

\* a slice whose step is checked before the bounds are transformed
getitem_slice_stepfirst(c, id, start, stop, step) ==
    IF start = None \/ stop = None \/ StepOf(step) = 0
    THEN <<c, <<>>, "ValueError">>
    ELSE CHOOSE r \in
        { <<c2,
            days_in_range(c2[id].items, start, stop - start,
                          Directed(stop - start, StepOf(step))),
            "none">> :
          c2 \in { CHOOSE r1 \in
                     { keytransform(c1, id, stop) :
                       c1 \in {keytransform(c, id, start)} } : TRUE }
        } : TRUE

\* __getitem__(slice(start, stop, step))
getitem_slice(c, id, start, stop, step) ==
    IF start = None \/ stop = None
    THEN <<c, <<>>, "ValueError">>
    ELSE CHOOSE r \in
        { IF StepOf(step) = 0
          THEN <<c2, <<>>, "ValueError">>
          ELSE <<c2,
                 days_in_range(c2[id].items, start, stop - start,
                               Directed(stop - start, StepOf(step))),
                 "none">> :
          c2 \in { CHOOSE r1 \in
                     { keytransform(c1, id, stop) :
                       c1 \in {keytransform(c, id, start)} } : TRUE }
        } : TRUE

\* pop(key, default): without a default an absent key is a KeyError
pop(c, id, key, default) ==
    CHOOSE r \in
        { IF dict_contains(c1[id].items, key)
          THEN <<[c1 EXCEPT ![id].items = dict_delitem(@, key)],
                 dict_getitem(c1[id].items, key), "none">>
          ELSE IF default = <<>>
          THEN <<c1, <<>>, "KeyError">>
          ELSE <<c1, default[1], "none">> :
          c1 \in {keytransform(c, id, key)} } : TRUE

\* the text update and append store for a key given without a name
Holiday == <<"Holiday">>

\* self[key] = value
insert(c, id, key, value) ==
    CHOOSE r \in { <<c1, <<>>, "none">> : c1 \in {setitem(c, id, key, value)} } : TRUE

\* append(keys) with a list of dates: self[item] = "Holiday" for each
append(c, id, keys) ==
    CHOOSE r \in
        { <<c1, <<>>, "none">> :
          c1 \in {update(c, id, [i \in 1 .. Len(keys) |-> <<keys[i], Holiday>>], 1)}
        } : TRUE

\* the values other than calendars that + is applied to: 0 and a string
Zero == "0"
Text == "text"

\* a sum that takes each operand as one constituent, a sum included
Constituents_self(c, id) == <<id>>

\* the constituents a calendar gives to a sum: its own, or itself
Constituents(c, id) ==
    IF c[id].holidays # <<>> THEN c[id].holidays ELSE <<id>>

\* the country of a sum (a Colombia calendar or a sum always has one)
SumCountry(c, id, other) ==
    IF c[id].country # <<>> /\ c[other].country # <<>>
       /\ c[id].country # c[other].country
    THEN c[id].country \o c[other].country
    ELSE IF c[id].country # <<>> THEN c[id].country ELSE c[other].country

\* __add__(other): self for 0, TypeError for another value that is no
\* calendar, else the HolidaySum of the two, built as the calendar sum;
\* order lists the union of the years
add(c, id, other, sum, order) ==
    IF other = Zero THEN <<c, id, "none">>
    ELSE IF other \notin Ids THEN <<c, <<>>, "TypeError">>
    ELSE CHOOSE r \in
        { <<c1, sum, "none">> :
          c1 \in {init(c, sum, "HolidaySum", SumCountry(c, id, other),
                       Constituents(c, id) \o Constituents(c, other), order,
                       c[id].expand \/ c[other].expand,
                       c[id].observed \/ c[other].observed)} } : TRUE

\* __radd__(other): other + self is self + other
radd(c, id, other, sum, order) == add(c, id, other, sum, order)

(***************************************************************************)
(* The state machine.  last records the operation just performed: its      *)
(* name, the calendar, the arguments, the result, the error and the years  *)
(* the call added to the calendar's years.                                 *)
(***************************************************************************)
Did(op, id, args, res) ==
    /\ cal' = res[1]
    /\ last' = [op |-> op, id |-> id, args |-> args, out |-> res[2],
                err |-> res[3], grew |-> res[1][id].years \ cal[id].years]

\* every operation but the pair SetObserved(false), SetObserved(true)
\* forgets the mapping the last SetObserved(false) found
Forget(c, id) == [c EXCEPT ![id].snap = <<>>]

Exists(id) == cal[id].kind # "none"

\* Colombia(years=..., expand=..., observed=...)
Construct(id, order, expand, observed) ==
    /\ cal[id].kind = "none"
    /\ \E c1 \in {init(cal, id, "Colombia", <<"CO">>, <<>>, order, expand, observed)} :
           Did("Construct", id, <<order, expand, observed>>,
               <<[c1 EXCEPT ![id].pure = observed], <<>>, "none">>)

\* key in calendar
ContainsOp(id, key) ==
    /\ Exists(id)
    /\ \E c \in {Forget(cal, id)} : \E res \in {contains(c, id, key)} :
           Did("Contains", id, <<key>>, res)

\* calendar.get(key)
Lookup(id, key) ==
    /\ Exists(id)
    /\ \E c \in {Forget(cal, id)} : \E res \in {get(c, id, key, <<"None">>)} :
           Did("Lookup", id, <<key>>, res)

\* calendar.get_list(key)
GetNames(id, key) ==
    /\ Exists(id)
    /\ \E c \in {Forget(cal, id)} : \E res \in {get_list(c, id, key)} :
           Did("GetNames", id, <<key>>, res)

\* calendar[start:stop:step]
RangeQuery(id, start, stop, step) ==
    /\ Exists(id)
    /\ \E c \in {Forget(cal, id)} :
       \E res \in {getitem_slice(c, id, start, stop, step)} :
           Did("RangeQuery", id, <<start, stop, step>>, res)

\* calendar.observed = value
SetObserved(id, value, order) ==
    /\ Exists(id)
    /\ \E c1 \in {setattr_observed(cal, id, value, order)} :
           Did("SetObserved", id, <<value>>,
               <<[c1 EXCEPT
                     ![id].toggled = TRUE,
                     ![id].pure = value,
                     ![id].snap =
                         IF value THEN @
                         ELSE IF cal[id].pure /\ cal[id].observed
                                 /\ Len(cal[id].items) > 0
                         THEN <<AsMap(cal[id].items)>>
                         ELSE <<>>],
                 <<>>, "none">>)

\* an insertion or a removal by the user: one more edit, and the entries
\* are no longer the rules' alone
Edited(c, id) == [c EXCEPT ![id].edits = @ + 1, ![id].pure = FALSE]

\* calendar[key] = name
Insert(id, key, name) ==
    /\ Exists(id)
    /\ cal[id].edits < MaxEdits
    /\ \E c \in {Edited(Forget(cal, id), id)} :
       \E res \in {insert(c, id, key, name)} :
           Did("Insert", id, <<key, name>>, res)

\* calendar.append(keys)
AppendDates(id, keys) ==
    /\ Exists(id)
    /\ cal[id].edits < MaxEdits
    /\ \E c \in {Edited(Forget(cal, id), id)} :
       \E res \in {append(c, id, keys)} :
           Did("AppendDates", id, <<keys>>, res)

\* calendar.pop(key) and calendar.pop(key, default)
Remove(id, key, default) ==
    /\ Exists(id)
    /\ cal[id].edits < MaxEdits
    /\ \E c \in {Edited(Forget(cal, id), id)} :
       \E res \in {pop(c, id, key, default)} :
           Did("Remove", id, <<key, default>>, res)

\* calendar + other; a sum of two calendars is the calendar "S"
Combine(id, other, order) ==
    /\ Exists(id)
    /\ other \in Ids => (Exists(other) /\ cal["S"].kind = "none")
    /\ \E c \in {Forget(cal, id)} :
       \E res \in {add(c, id, other, "S", order)} :
           Did("Combine", id, <<other>>, res)

\* other + calendar, for a value other that is no calendar
RightCombine(id, other) ==
    /\ Exists(id)
    /\ other \notin Ids
    /\ \E c \in {Forget(cal, id)} :
       \E res \in {radd(c, id, other, "S", <<>>)} :
           Did("RightCombine", id, <<other>>, res)

\* calendar + other for two calendars, the sum being built as the calendar
\* sum
CombineInto(id, other, sum, order) ==
    /\ Exists(id) /\ Exists(other)
    /\ cal[sum].kind = "none"
    /\ \E c \in {Forget(cal, id)} :
       \E res \in {add(c, id, other, sum, order)} :
           Did("Combine", id, <<other>>, res)

\* calendar._populate(y), invoked directly
Populate(id, y) ==
    /\ Exists(id)
    /\ \E c \in {Forget(cal, id)} :
       \E c1 \in {populate(c, id, y)} :
           Did("Populate", id, <<y>>, <<c1, <<>>, "none">>)

\* the state with no calendar
Nothing == [id \in Ids |-> NoCalendar]

\* a Colombia calendar constructed with the year y requested
FreshYear(id, y, expand, observed) ==
    init(Nothing, id, "Colombia", <<"CO">>, <<>>, <<y>>, expand, observed)

(***************************************************************************)
(* Spec: one Colombia calendar, its queries and the toggling of observed.  *)
(***************************************************************************)
\* the dates asked about in a year: Epiphany and the Monday it moves to
Keys(y) == {date(y, JAN, 6), rd_weekday(date(y, JAN, 6), MON)}

\* the slices asked for, as <<start, stop>>: a bound missing, ten days of a
\* year forwards and backwards, and a range that crosses into the next year
Ranges ==
    UNION { { <<None, date(y, JAN, 10)>>, <<date(y, JAN, 1), None>>,
              <<date(y, JAN, 1), date(y, JAN, 10)>>,
              <<date(y, JAN, 10), date(y, JAN, 1)>> } : y \in Years }
    \cup { <<date(y, JAN, 1), date(y + 1, JAN, 10)>> : y \in Years \ {BaseYear + NumYears - 1} }

\* the steps of the slices: None, 0, and a negative stride
Steps == {<<>>, <<0>>, <<0 - 2>>}

Init == /\ cal = [id \in Ids |-> NoCalendar]
        /\ last = [op |-> "none", id |-> "A", args |-> <<>>, out |-> <<>>,
                   err |-> "none", grew |-> {}]

Next ==
    \/ \E ys \in SUBSET Years : \E order \in Orders(ys) :
           \E expand \in BOOLEAN, observed \in BOOLEAN :
               Construct("A", order, expand, observed)
    \/ \E y \in Years : \E key \in Keys(y) : ContainsOp("A", key)
    \/ \E y \in Years : \E key \in Keys(y) : Lookup("A", key)
    \/ \E y \in Years : \E key \in Keys(y) : GetNames("A", key)
    \/ \E r \in Ranges, step \in Steps : RangeQuery("A", r[1], r[2], step)
    \/ \E value \in BOOLEAN : \E order \in Orders(cal["A"].years) :
           SetObserved("A", value, order)

Spec == Init /\ [][Next]_vars

(***************************************************************************)
(* SpecRules: the rule table.  A Colombia calendar constructed for one     *)
(* year of RuleYears, whose _populate is then invoked again.               *)
(***************************************************************************)
\* the record of a construction
Constructed(id, order, expand, observed) ==
    [op |-> "Construct", id |-> id, args |-> <<order, expand, observed>>,
     out |-> <<>>, err |-> "none", grew |-> {}]

InitRules ==
    \E y \in RuleYears, expand \in BOOLEAN, observed \in BOOLEAN :
        /\ cal = [FreshYear("A", y, expand, observed) EXCEPT
                     !["A"].pure = observed]
        /\ last = Constructed("A", <<y>>, expand, observed)

NextRules == \E y \in cal["A"].years : Populate("A", y)

SpecRules == InitRules /\ [][NextRules]_vars

(***************************************************************************)
(* SpecEdit: one Colombia calendar, constructed, and the operations that   *)
(* edit it or fail on it.                                                  *)
(***************************************************************************)
\* the years of a set in ascending order
RECURSIVE Ascending(_)
Ascending(S) ==
    IF S = {} THEN <<>>
    ELSE LET m == CHOOSE y \in S : \A z \in S : y <= z
         IN <<m>> \o Ascending(S \ {m})

\* a name of the user's
Feria == <<"Feria">>

\* the names inserted: one the rules do not use, one they use, and that
\* one with the suffix of an observed holiday
Names == {Feria, Epiphany, Epiphany \o ObservedSuffix}

\* the dates edited: those asked about in the last year
EditKeys == Keys(BaseYear + NumYears - 1)

InitEdit ==
    \E ys \in SUBSET Years, expand \in BOOLEAN, observed \in BOOLEAN :
        /\ cal = [init(Nothing, "A", "Colombia", <<"CO">>, <<>>,
                        Ascending(ys), expand, observed) EXCEPT
                     !["A"].pure = observed]
        /\ last = Constructed("A", Ascending(ys), expand, observed)

NextEdit ==
    \/ \E key \in EditKeys, name \in Names : Insert("A", key, name)
    \/ AppendDates("A", Ascending(EditKeys))
    \/ \E key \in EditKeys, default \in {<<>>, <<Feria>>} :
           Remove("A", key, default)
    \/ \E key \in EditKeys : GetNames("A", key)
    \/ \E r \in Ranges : RangeQuery("A", r[1], r[2], <<0>>)
    \/ \E other \in {Zero, Text} : Combine("A", other, <<>>)

SpecEdit == InitEdit /\ [][NextEdit]_vars

(***************************************************************************)
(* SpecSum: two Colombia calendars, constructed (the first observed, the   *)
(* second not expanding), their sum, queries on the first and on the sum,  *)
(* and insertions into the first.                                          *)
(***************************************************************************)
InitSum ==
    \E ya \in SUBSET Years, yb \in SUBSET Years,
       ea \in BOOLEAN, ob \in BOOLEAN :
        /\ cal = [init(init(Nothing, "A", "Colombia", <<"CO">>, <<>>,
                             Ascending(ya), ea, TRUE),
                        "B", "Colombia", <<"CO">>, <<>>,
                        Ascending(yb), FALSE, ob) EXCEPT
                     !["A"].pure = TRUE, !["B"].pure = ob]
        /\ last = Constructed("B", Ascending(yb), FALSE, ob)

NextSum ==
    \/ \E order \in Orders(cal["A"].years \cup cal["B"].years) :
           Combine("A", "B", order)
    \/ \E id \in {"A", "S"}, key \in EditKeys : ContainsOp(id, key)
    \/ \E key \in EditKeys : GetNames("S", key)
    \/ \E key \in EditKeys : Insert("A", key, Feria)

SpecSum == InitSum /\ [][NextSum]_vars

(***************************************************************************)
(* Properties of the queries and of the observed attribute, under Spec.    *)
(***************************************************************************)
\* the elements of a sequence
Range(s) == {s[i] : i \in 1 .. Len(s)}

\* the dates of a sequence that lie in the year y
InYear(s, y) == SelectSeq(s, LAMBDA d : year(d) = y)

\* the answer of the query op(args) on the calendar id of c; of a slice,
\* the dates of the year y
AnswerIn(c, id, op, args, y) ==
    CASE op = "Contains" -> contains(c, id, args[1])[2]
      [] op = "Lookup" -> get(c, id, args[1], <<"None">>)[2]
      [] op = "GetNames" -> get_list(c, id, args[1])[2]
      [] OTHER -> InYear(getitem_slice(c, id, args[1], args[2], args[3])[2], y)

\* C1: RangeQuery(start, stop) with the default step returns exactly the
\* keys d of the mapping, as the call leaves it, with start <= d < stop in
\* ascending order, each once; when stop < start, exactly the keys d with
\* stop < d <= start in descending order.
C1_RangeQueryIsSortedKeysInRange ==
    (last.op = "RangeQuery" /\ last.err = "none" /\ last.args[3] = <<>>) =>
        LET start == last.args[1]
            stop == last.args[2]
            out == last.out
            keys == dict_keys(cal[last.id].items)
        IN IF stop < start
           THEN /\ Range(out) = {d \in keys : stop < d /\ d <= start}
                /\ \A i \in 1 .. Len(out), j \in 1 .. Len(out) :
                       i < j => out[i] > out[j]
           ELSE /\ Range(out) = {d \in keys : start <= d /\ d < stop}
                /\ \A i \in 1 .. Len(out), j \in 1 .. Len(out) :
                       i < j => out[i] < out[j]

\* a slice with the default step returned several dates
C1_Witness ==
    /\ last.op = "RangeQuery" /\ last.err = "none" /\ last.args[3] = <<>>
    /\ Len(last.out) >= 2
    /\ last.out[1] < last.out[2]

\* C2: with expand = TRUE, a Contains, Lookup, GetNames or RangeQuery whose
\* key or bound lies in a year y not yet in the YearSet adds y to the
\* YearSet and inserts every holiday the rules generate for y before the
\* answer is computed: the answer is what a calendar constructed with y
\* requested gives (for a slice, on the dates of y).
C2_LazyExpansionIsComplete ==
    (last.op \in {"Contains", "Lookup", "GetNames", "RangeQuery"}
     /\ last.err = "none") =>
        \A y \in last.grew :
            LET me == cal[last.id]
                rules == ColombiaRules(y, me.observed)
            IN /\ y \in me.years
               /\ \A i \in 1 .. Len(rules) :
                      /\ dict_contains(me.items, rules[i][1])
                      /\ rules[i][2] \in
                             Range(split(dict_getitem(me.items, rules[i][1])))
               /\ AnswerIn(cal, last.id, last.op, last.args, y)
                      = IF last.op = "RangeQuery"
                        THEN InYear(last.out, y) ELSE last.out
               /\ AnswerIn(FreshYear(last.id, y, me.expand, me.observed),
                           last.id, last.op, last.args, y)
                      = IF last.op = "RangeQuery"
                        THEN InYear(last.out, y) ELSE last.out

\* a slice populated a year lazily and returned holidays of it
C2_Witness ==
    /\ last.op = "RangeQuery" /\ last.err = "none"
    /\ \E y \in last.grew : InYear(last.out, y) # <<>>

\* C5: on a calendar whose entries the rules produced with observed = TRUE
\* for a non-empty set of years, SetObserved(false) then SetObserved(true)
\* leaves the mapping equal to the mapping before the two calls, each time
\* the pair is performed (snap holds the mapping before the pair).
C5_TogglePairRestoresMapping ==
    \A id \in Ids :
        (last.op = "SetObserved" /\ last.id = id /\ last.args = <<TRUE>>
         /\ cal[id].snap # <<>>) =>
            AsMap(cal[id].items) = cal[id].snap[1]

\* C6: SetObserved(true) on a calendar that has entries leaves the YearSet
\* equal to the set it held before the call, for every value of expand.
C6_SetObservedTrueKeepsYearSet ==
    [][(/\ last'.op = "SetObserved" /\ last'.args = <<TRUE>>
        /\ Len(cal[last'.id].items) > 0)
       => cal'[last'.id].years = cal[last'.id].years]_vars

(***************************************************************************)
(* Properties of the rule table, under SpecRules.                          *)
(***************************************************************************)
\* the names recorded on the date d: the parts of its entry
NamesOn(items, d) ==
    IF dict_contains(items, d) THEN Range(split(dict_getitem(items, d))) ELSE {}

\* the raw dates of the non-movable holidays of the year y
FixedDates(y) ==
    {date(y, JAN, 1), date(y, MAY, 1), date(y, JUL, 20), date(y, AUG, 7),
     date(y, DEC, 8), date(y, DEC, 25)}

\* the movable holidays of the year y, each <<raw date, name>>
MovableHolidays(y) ==
    { <<date(y, JAN, 6), Epiphany>>, <<date(y, MAR, 19), SaintJoseph>>,
      <<date(y, JUN, 29), SaintPeterAndPaul>>, <<date(y, AUG, 15), Assumption>>,
      <<date(y, OCT, 12), DiscoveryOfAmerica>>, <<date(y, NOV, 1), AllSaints>>,
      <<date(y, NOV, 11), IndependenceOfCartagena>>,
      <<easter(y) + 39, Ascension>>, <<easter(y) + 60, CorpusChristi>>,
      <<easter(y) + 68, SacredHeart>> }

\* C3: for every year populated and each of the six non-movable holidays,
\* with observed = TRUE a raw date on a Saturday or Sunday is not a key of
\* the calendar, and with observed = FALSE the raw date is always a key.
C3_WeekendFixedDatesAreDropped ==
    \A y \in cal["A"].years : \A d \in FixedDates(y) :
        IF cal["A"].observed
        THEN weekday(d) \in WEEKEND => ~dict_contains(cal["A"].items, d)
        ELSE dict_contains(cal["A"].items, d)

\* C4: for every year populated and every movable holiday with raw date d:
\* if d is a Monday or observed = FALSE the holiday is recorded on d with
\* its plain name; otherwise it is recorded on the first Monday after d,
\* 1 to 6 days later, under its name ending in "(Observed)", and it is not
\* recorded on d.
C4_EmilianiHolidaysMoveToMonday ==
    \A y \in cal["A"].years : \A h \in MovableHolidays(y) :
        LET d == h[1]
            name == h[2]
            items == cal["A"].items
        IN IF weekday(d) = MON \/ ~cal["A"].observed
           THEN name \in NamesOn(items, d)
           ELSE /\ \E m \in (d + 1) .. (d + 6) :
                       /\ weekday(m) = MON
                       /\ (name \o ObservedSuffix) \in NamesOn(items, m)
                /\ name \notin NamesOn(items, d)
                /\ (name \o ObservedSuffix) \notin NamesOn(items, d)

\* an observed year in which one movable holiday stays on its Monday and
\* two others are moved to the same Monday
C4_Witness ==
    /\ cal["A"].observed
    /\ \E y \in cal["A"].years :
           /\ \E h \in MovableHolidays(y) :
                  /\ weekday(h[1]) = MON
                  /\ h[2] \in NamesOn(cal["A"].items, h[1])
           /\ \E h1 \in MovableHolidays(y), h2 \in MovableHolidays(y) :
                  /\ h1 # h2
                  /\ weekday(h1[1]) # MON /\ weekday(h2[1]) # MON
                  /\ \E m \in (h1[1] + 1) .. (h1[1] + 6) :
                         {h1[2] \o ObservedSuffix, h2[2] \o ObservedSuffix}
                             \subseteq NamesOn(cal["A"].items, m)

\* C8: invoking _populate(Y) again on a calendar populated for Y, observed
\* unchanged, leaves the mapping as the first invocation left it, also on
\* the dates where two rules were merged.
C8_PopulateTwiceIsIdempotent ==
    [][last'.op = "Populate"
       => AsMap(cal'[last'.id].items) = AsMap(cal[last'.id].items)]_vars

\* _populate was invoked again on a calendar holding a merged entry
C8_Witness ==
    /\ last.op = "Populate"
    /\ Calls(cal, last.id, last.args[1]) >= 2
    /\ \E i \in 1 .. Len(cal[last.id].items) :
           Contains(cal[last.id].items[i][2], Separator)

(***************************************************************************)
(* Properties of the insertions and of the failing calls, under SpecEdit.  *)
(***************************************************************************)
\* C7 (amended): Insert(key, name) on a date holding the text T once the
\* key's year is populated: if neither T contains name nor name contains T
\* the entry becomes name, the separator ", " and then T (the new name
\* comes first); otherwise it stays T.  On a date with no entry then, the
\* entry becomes name.
C7_InsertPutsNewNameFirst ==
    [][last'.op = "Insert" =>
        LET id == last'.id
            key == last'.args[1]
            name == last'.args[2]
            before == keytransform(cal, id, key)[id].items
            after == cal'[id].items
        IN /\ dict_contains(after, key)
           /\ dict_getitem(after, key) =
                  IF dict_contains(before, key)
                  THEN LET T == dict_getitem(before, key)
                       IN IF ~Contains(T, name) /\ ~Contains(name, T)
                          THEN name \o Separator \o T
                          ELSE T
                  ELSE name]_vars

\* an insertion put its name before the text the date held
C7_Witness ==
    /\ last.op = "Insert"
    /\ LET entry == dict_getitem(cal[last.id].items, last.args[1])
           name == last.args[2]
       IN /\ Len(entry) > Len(name) + 1
          /\ SubSeq(entry, 1, Len(name) + 1) = name \o Separator

\* C7 as stated: Insert(key, name) on a date that holds T makes the entry
\* T, the separator and then name when neither contains the other, else
\* leaves T; on a date with no entry the entry becomes name.
C7_InsertAppendsNewName ==
    [][last'.op = "Insert" =>
        LET id == last'.id
            key == last'.args[1]
            name == last'.args[2]
            before == cal[id].items
            after == cal'[id].items
        IN /\ dict_contains(after, key)
           /\ dict_getitem(after, key) =
                  IF dict_contains(before, key)
                  THEN LET T == dict_getitem(before, key)
                       IN IF ~Contains(T, name) /\ ~Contains(name, T)
                          THEN T \o Separator \o name
                          ELSE T
                  ELSE name]_vars

\* the keys a failing call transforms before it fails
KeysBeforeError(op, args) ==
    CASE op = "RangeQuery" /\ args[1] # None /\ args[2] # None -> {args[1], args[2]}
      [] op = "Remove" -> {args[1]}
      [] OTHER -> {}

\* C10 (amended): a call that ends in an error changes the calendar only by
\* the lazy expansion done before the error (the entries it held keep their
\* texts and their order).  RangeQuery with a missing
\* bound and Combine with a value that is no calendar leave the mapping and
\* the YearSet as they were.  RangeQuery with step zero and Remove of an
\* absent key with no default leave them as they were when expand is FALSE
\* or the years of the keys are in the YearSet; otherwise those years are
\* added to the YearSet and populated in full, and nothing else changes.
C10_ErrorsOnlyExpandYears ==
    [][last'.err # "none" =>
        \A id \in {last'.id} :
        \A grown \in {IF cal[id].expand
                      THEN {year(k) : k \in KeysBeforeError(last'.op, last'.args)}
                               \ cal[id].years
                      ELSE {}} :
           /\ cal'[id].years = cal[id].years \cup grown
           /\ Len(cal'[id].items) >= Len(cal[id].items)
           /\ SubSeq(cal'[id].items, 1, Len(cal[id].items)) = cal[id].items
           /\ \A i \in (Len(cal[id].items) + 1) .. Len(cal'[id].items) :
                  year(cal'[id].items[i][1]) \in grown
           /\ \A y \in grown :
              \A fresh \in {FreshYear(id, y, cal[id].expand, cal[id].observed)[id].items} :
                  AsMap(SelectSeq(cal'[id].items, LAMBDA it : year(it[1]) = y))
                      = AsMap(fresh)
           /\ \A j \in Ids \ {id} :
                  /\ cal'[j].items = cal[j].items
                  /\ cal'[j].years = cal[j].years]_vars

\* a slice with step zero failed after it had populated a year, and a
\* removal failed likewise
C10_Witness ==
    /\ last.err # "none"
    /\ last.op \in {"RangeQuery", "Remove"}
    /\ last.grew # {}
    /\ Len(cal[last.id].items) > 0

\* C10 as stated: every call that ends in an error leaves the mapping and
\* the YearSet of the calendar exactly as they were before the call.
C10_ErrorsLeaveCalendarUnchanged ==
    [][last'.err # "none" =>
        /\ AsMap(cal'[last'.id].items) = AsMap(cal[last'.id].items)
        /\ cal'[last'.id].years = cal[last'.id].years]_vars

(***************************************************************************)
(* Properties of the sums, under SpecSum.                                  *)
(***************************************************************************)
\* C9: while observed is never toggled, _populate(y) is invoked at most
\* once per year y on every calendar, the constituents of a sum included.
C9_PopulateAtMostOncePerYear ==
    \A id \in Ids : \A y \in Years :
        ~cal[id].toggled => Calls(cal, id, y) <= 1

\* the keys of a dict that lie in the year y
KeysIn(items, y) == {d \in dict_keys(items) : year(d) = y}

\* C11: constructing the sum of A and B, and any later query on the sum,
\* never changes the mapping or the YearSet of A or of B.
C11_SumLeavesConstituentsUnchanged ==
    [][(last'.op = "Combine" \/ last'.id = "S") =>
        \A j \in {"A", "B"} :
            /\ AsMap(cal'[j].items) = AsMap(cal[j].items)
            /\ cal'[j].years = cal[j].years]_vars

\* C12: when the sum S of A and B is constructed, for every year y of its
\* YearSet the keys of S in y are the keys A and B hold in y, which for
\* constituents never edited are the keys their rules produce for y; on a
\* date where A and B hold texts neither of which contains the other, the
\* entry of S is A's text, the separator, and B's text (the text of the
\* first constituent comes first).
C12_SumIsUnionFirstConstituentFirst ==
    [][(last'.op = "Combine" /\ last'.out = "S") =>
        \A a \in {cal'["A"].items} : \A b \in {cal'["B"].items} :
        \A s \in {cal'["S"].items} :
           /\ \A y \in cal'["S"].years :
                 /\ KeysIn(s, y) = KeysIn(a, y) \cup KeysIn(b, y)
                 /\ (cal'["A"].edits = 0 /\ cal'["B"].edits = 0) =>
                        KeysIn(s, y) =
                            dict_keys(FreshYear("A", y, FALSE, cal'["A"].observed)["A"].items)
                            \cup
                            dict_keys(FreshYear("B", y, FALSE, cal'["B"].observed)["B"].items)
           /\ \A d \in dict_keys(a) \cap dict_keys(b) :
                  (/\ ~Contains(dict_getitem(a, d), dict_getitem(b, d))
                   /\ ~Contains(dict_getitem(b, d), dict_getitem(a, d)))
                  => dict_getitem(s, d) =
                         dict_getitem(a, d) \o Separator \o dict_getitem(b, d)]_vars

(***************************************************************************)
(* SpecToggle: one Colombia calendar, constructed, into which the user     *)
(* inserts names, whose observed attribute is assigned, and which is       *)
(* queried.                                                                *)
(***************************************************************************)
\* a name of the user's that holds the word Observed without parentheses
NotObserved == <<"Not ", "Observed">>

\* the slices of ten days of a year, forwards
FullRanges == {<<date(y, JAN, 1), date(y, JAN, 10)>> : y \in Years}

NextToggle ==
    \/ \E key \in EditKeys, name \in {Feria, NotObserved} :
           Insert("A", key, name)
    \/ \E value \in BOOLEAN : SetObserved("A", value, Ascending(cal["A"].years))
    \/ \E key \in EditKeys : ContainsOp("A", key)
    \/ \E key \in EditKeys : Lookup("A", key)
    \/ GetNames("A", date(BaseYear + NumYears - 1, JAN, 6))
    \/ \E r \in FullRanges : RangeQuery("A", r[1], r[2], <<>>)

SpecToggle == InitEdit /\ [][NextToggle]_vars

InitFold ==
    \E ya \in SUBSET Years, yb \in {{}, {BaseYear}},
       ea \in BOOLEAN, eb \in BOOLEAN, oa \in BOOLEAN, ob \in BOOLEAN :
        /\ cal = [init(init(Nothing, "A", "Colombia", <<"CO">>, <<>>,
                             Ascending(ya), ea, oa),
                        "B", "Colombia", <<"CO">>, <<>>,
                        Ascending(yb), eb, ob) EXCEPT
                     !["A"].pure = oa, !["B"].pure = ob]
        /\ last = Constructed("B", Ascending(yb), eb, ob)

NextFold ==
    \/ RightCombine("A", Zero)
    \/ Combine("A", Zero, <<>>)
    \/ \E id \in {"A", "B"}, other \in {"A", "B"} :
           /\ id # other
           /\ CombineInto(id, other, "S",
                          Ascending(cal[id].years \cup cal[other].years))
    \/ \E other \in {"A", "B"} :
           CombineInto("S", other, "T",
                       Ascending(cal["S"].years \cup cal[other].years))
    \/ /\ cal["A"].edits = 0
       /\ Insert("A", date(BaseYear + NumYears - 1, JAN, 6), Feria)

SpecFold == InitFold /\ [][NextFold]_vars

(***************************************************************************)
(* Properties of + under SpecFold.                                         *)
(***************************************************************************)
\* what a calendar is to its user: its mapping, its YearSet and its
\* configuration
Seen(c, id) ==
    <<AsMap(c[id].items), c[id].years, c[id].expand, c[id].observed,
      c[id].country, c[id].holidays, c[id].kind>>

\* the years of the keys the calendars hs[1], .., hs[n] hold
KeyYears(c, hs) ==
    UNION { {year(d) : d \in dict_keys(c[hs[i]].items)} : i \in 1 .. Len(hs) }

\* C14: A + 0 and 0 + A return A itself, and leave the mapping, the YearSet
\* and the configuration of every calendar unchanged; A + B for calendars
\* returns a sum whose constituent list is the constituents of A (A itself
\* when A is no sum) followed by those of B, and whose expand and observed
\* are the disjunctions of the operands'.  So 0 + A1 is A1, and
\* 0 + A1 + .. + An is a sum with the constituents A1, .., An in this
\* order.  The years of the sum are the union of the operands' years, and,
\* when the sum expands and that union is not empty, the years of all the
\* keys its constituents held as well.
C14_ZeroIsIdentityAndFoldKeepsOrder ==
    [][/\ (last'.op \in {"Combine", "RightCombine"} /\ last'.args = <<Zero>>) =>
            /\ last'.out = last'.id
            /\ last'.err = "none"
            /\ \A id \in Ids : Seen(cal', id) = Seen(cal, id)
       /\ (last'.op = "Combine" /\ last'.args # <<Zero>>) =>
            \A a \in {last'.id} : \A b \in {last'.args[1]} : \A s \in {last'.out} :
               /\ last'.err = "none"
               /\ s \notin {a, b}
               /\ cal'[s].kind = "HolidaySum"
               /\ cal'[s].holidays =
                      (IF cal[a].kind = "HolidaySum"
                       THEN cal[a].holidays ELSE <<a>>)
                      \o (IF cal[b].kind = "HolidaySum"
                          THEN cal[b].holidays ELSE <<b>>)
               /\ \A i \in 1 .. Len(cal'[s].holidays) :
                      cal'[cal'[s].holidays[i]].kind = "Colombia"
               /\ cal'[s].expand = (cal[a].expand \/ cal[b].expand)
               /\ cal'[s].observed = (cal[a].observed \/ cal[b].observed)
               /\ cal'[s].years =
                      (cal[a].years \cup cal[b].years)
                      \cup (IF cal'[s].expand /\ (cal[a].years \cup cal[b].years) # {}
                            THEN KeyYears(cal, cal'[s].holidays) ELSE {})]_vars

\* C14 as stated: the years of the sum A + B are the union of the operands'
\* years (as they were before the call, or as they are after it).
C14_SumYearsAreUnionOfOperands ==
    [][(last'.op = "Combine" /\ last'.args # <<Zero>>) =>
            \A a \in {last'.id} : \A b \in {last'.args[1]} : \A s \in {last'.out} :
               \/ cal'[s].years = cal[a].years \cup cal[b].years
               \/ cal'[s].years = cal'[a].years \cup cal'[b].years]_vars

\* the fold of three calendars has been built: T is the sum of the sum S of
\* two different calendars and a third
C14_Witness ==
    /\ last.op = "Combine" /\ last.id = "S" /\ last.out = "T"
    /\ Len(cal["T"].holidays) = 3
    /\ cal["T"].holidays[1] # cal["T"].holidays[2]
    /\ cal["T"].years # {}
    /\ cal["A"].observed # cal["B"].observed
    /\ cal["A"].expand # cal["B"].expand

\* the queries
Queries == {"Contains", "Lookup", "GetNames", "RangeQuery"}

\* C15: on a Colombia calendar with expand = FALSE a query never fails on a
\* date, never changes the mapping or the YearSet, whatever the year of
\* the key, and answers from the mapping as it stands: Contains tells
\* whether the key is held, Lookup gives its text or the default, GetNames
\* its names or none, RangeQuery the keys held from start up to stop.
C15_NoExpandQueriesReadTheMapping ==
    [][(last'.op \in Queries /\ ~cal["A"].expand) =>
        \A items \in {cal["A"].items} : \A key \in {last'.args[1]} :
           /\ cal'["A"].items = items
           /\ cal'["A"].years = cal["A"].years
           /\ last'.err = "none"
           /\ last'.op = "Contains" => last'.out = (key \in dict_keys(items))
           /\ last'.op = "Lookup" =>
                  last'.out = IF key \in dict_keys(items)
                              THEN dict_getitem(items, key) ELSE <<"None">>
           /\ last'.op = "GetNames" =>
                  /\ (key \notin dict_keys(items)) => last'.out = <<>>
                  /\ (key \in dict_keys(items)) =>
                         /\ last'.out # <<>>
                         /\ \A i \in 1 .. Len(last'.out) :
                                Contains(dict_getitem(items, key), last'.out[i])
           /\ last'.op = "RangeQuery" =>
                  /\ Range(last'.out) =
                         {d \in dict_keys(items) : key <= d /\ d < last'.args[2]}
                  /\ \A i \in 1 .. Len(last'.out) - 1 :
                         last'.out[i] < last'.out[i + 1]]_vars

\* a calendar that does not expand, and holds entries, was asked about a
\* date in a year outside its YearSet and reported it absent
C15_Witness ==
    /\ last.op = "Contains" /\ last.out = FALSE
    /\ ~cal["A"].expand
    /\ cal["A"].years # {}
    /\ cal["A"].items # <<>>
    /\ year(last.args[1]) \notin cal["A"].years

\* C15 as stated: on a calendar with expand = FALSE a date in a year outside
\* the YearSet is reported absent: Contains is false, Lookup gives the
\* default, GetNames no name, and RangeQuery returns no date of such a year.
C15_OutsideYearSetIsAbsent ==
    [][(last'.op \in Queries /\ ~cal["A"].expand) =>
        /\ cal'["A"].items = cal["A"].items
        /\ cal'["A"].years = cal["A"].years
        /\ (last'.op # "RangeQuery"
            /\ year(last'.args[1]) \notin cal["A"].years) =>
               last'.out = CASE last'.op = "Contains" -> FALSE
                             [] last'.op = "Lookup" -> <<"None">>
                             [] OTHER -> <<>>
        /\ last'.op = "RangeQuery" =>
               \A i \in 1 .. Len(last'.out) :
                   year(last'.out[i]) \in cal["A"].years]_vars

(***************************************************************************)
(* Properties of the step of a slice, under Spec.                          *)
(***************************************************************************)
\* the absolute value
Abs(n) == IF n < 0 THEN 0 - n ELSE n

\* C16: a slice with a step k that is not zero returns what the slice with
\* the step -k returns, and exactly the keys of the mapping among the days
\* start, start + |k|, start + 2|k|, .. before stop in this order (when
\* stop < start: start, start - |k|, .. after stop).
C16_StepSignIsCorrected ==
    (/\ last.op = "RangeQuery" /\ last.err = "none"
     /\ last.args[3] # <<>>) =>
        \A start \in {last.args[1]} : \A stop \in {last.args[2]} :
        \A k \in {last.args[3][1]} : \A out \in {last.out} :
        \A keys \in {dict_keys(cal[last.id].items)} :
           /\ k # 0
           /\ out = getitem_slice(cal, last.id, start, stop, <<0 - k>>)[2]
           /\ IF stop < start
              THEN /\ Range(out) =
                          {d \in keys : /\ stop < d /\ d <= start
                                        /\ (start - d) % Abs(k) = 0}
                   /\ \A i \in 1 .. Len(out) - 1 : out[i] > out[i + 1]
              ELSE /\ Range(out) =
                          {d \in keys : /\ start <= d /\ d < stop
                                        /\ (d - start) % Abs(k) = 0}
                   /\ \A i \in 1 .. Len(out) - 1 : out[i] < out[i + 1]

\* a slice forwards with a negative step returned a holiday and skipped
\* another that lies in the range but not on the stride
C16_Witness ==
    /\ last.op = "RangeQuery" /\ last.err = "none"
    /\ last.args[3] # <<>> /\ last.args[3][1] < 0
    /\ last.args[1] < last.args[2]
    /\ last.out # <<>>
    /\ \E d \in dict_keys(cal[last.id].items) :
           /\ last.args[1] <= d /\ d < last.args[2]
           /\ d \notin Range(last.out)

(***************************************************************************)
(* SpecSpan: one Colombia calendar, constructed over some of three years,  *)
(* and slices whose bounds lie in different years, as /api/analyze and     *)
(* /api/add-working-days take them.                                        *)
(***************************************************************************)
\* the years of the slices: those of Years and the next
SpanYears == BaseYear .. (BaseYear + NumYears)

InitSpan ==
    \E ys \in SUBSET SpanYears, expand \in BOOLEAN, observed \in BOOLEAN :
        /\ cal = [init(Nothing, "A", "Colombia", <<"CO">>, <<>>,
                        Ascending(ys), expand, observed) EXCEPT
                     !["A"].pure = observed]
        /\ last = Constructed("A", Ascending(ys), expand, observed)

NextSpan ==
    \/ \E y1 \in SpanYears, y2 \in SpanYears :
           /\ y1 < y2
           /\ RangeQuery("A", date(y1, JAN, 1), date(y2, JAN, 10), <<>>)
    \/ \E y \in SpanYears : ContainsOp("A", date(y, JAN, 6))

SpecSpan == InitSpan /\ [][NextSpan]_vars

\* C17: on a calendar with expand = TRUE a slice whose bounds lie in
\* different years returns every date d the rules generate with
\* start <= d < stop, those of the years between the years of the bounds
\* included, and leaves every year from start's to stop's in the YearSet.
C17_SliceAcrossYearsIsComplete ==
    (/\ last.op = "RangeQuery" /\ last.err = "none"
     /\ cal["A"].expand
     /\ year(last.args[1]) < year(last.args[2])) =>
        \A y \in year(last.args[1]) .. year(last.args[2]) :
           /\ y \in cal["A"].years
           /\ \A d \in dict_keys(FreshYear("A", y, TRUE, cal["A"].observed)["A"].items) :
                  (last.args[1] <= d /\ d < last.args[2]) => d \in Range(last.out)

\* C18: in every state of a calendar whose entries the rules produced, the
\* YearSet is the set of the years of the keys of the mapping: no key lies
\* in a year missing from the YearSet, and no year of the YearSet is
\* without entries.
C18_YearSetIsTheYearsOfTheKeys ==
    \A id \in Ids :
        (Exists(id) /\ cal[id].edits = 0) =>
            cal[id].years = {year(d) : d \in dict_keys(cal[id].items)}

(***************************************************************************)
(* The holidays of a year with observed = FALSE, under SpecRules.          *)
(***************************************************************************)
\* the eighteen holidays of the year y, each <<raw date, name>>
RawHolidays(y) ==
    { <<date(y, JAN, 1), NewYear>>, <<date(y, MAY, 1), LabourDay>>,
      <<date(y, JUL, 20), IndependenceDay>>, <<date(y, AUG, 7), BattleOfBoyaca>>,
      <<date(y, DEC, 8), ImmaculateConception>>, <<date(y, DEC, 25), Christmas>>,
      <<easter(y) - 3, MaundyThursday>>, <<easter(y) - 2, GoodFriday>> }
    \cup MovableHolidays(y)

====
